---- MODULE Spec2Model ----
(***************************************************************************)
(* Amdahl's-law workload simulation: simulate_amdahl and the module-level  *)
(* sweep over parallel fractions and core counts that fills `results` and  *)
(* annotates every curve with its theoretical limit.                       *)
(*                                                                         *)
(* Python floats are binary floating-point numbers.  They are modelled as  *)
(* a binary floating-point format with PREC significand bits, gradual      *)
(* underflow and round-to-nearest-even; a float is held as an integer      *)
(* number of quanta, the quantum being 2^-QBITS (the smallest positive     *)
(* subnormal), so 1.0 is ONE = 2^QBITS.  IEEE double is the same format    *)
(* with PREC = 53 and QBITS = 1074.  There is no largest exponent: no      *)
(* input used here comes near overflow.                                    *)
(***************************************************************************)
EXTENDS Integers, Sequences, FiniteSets

\* ---- bounds of the model ------------------------------------------------
PREC == 5
QBITS == 8
MaxTinyTime == 3
MaxCores == 3
MaxTinyFrac == 5
MaxSweepCores == 2
MaxFractions == 2
MaxCoreCounts == 2

\* ---- program constants --------------------------------------------------
DefaultTotalTime == 100
LabelDecimals == 2

VARIABLES
    call,                \* arguments of the first call of simulate_amdahl
    ret,                 \* what that call returned or raised
    call2,               \* arguments of the second call
    ret2,                \* what the second call returned or raised
    total_time,          \* module-level parameters of the sweep
    parallel_fractions,
    core_counts,
    pc,                  \* position of the script
    p_idx,               \* index of p_frac in parallel_fractions
    n_idx,               \* number of core counts already evaluated for p_frac
    speedups,            \* the list being built for p_frac
    results,             \* the dict, as its items in insertion order
    plotted,             \* the curves handed to plt.plot, in order
    error                \* the exception that ended the script, if any

vars == <<call, ret, call2, ret2, total_time, parallel_fractions, core_counts,
          pc, p_idx, n_idx, speedups, results, plotted, error>>

\* ---- floating point -----------------------------------------------------
RECURSIVE Pow(_, _)
Pow(b, e) == IF e = 0 THEN 1 ELSE b * Pow(b, e - 1)

ONE == Pow(2, QBITS)

Abs(x) == IF x < 0 THEN -x ELSE x

\* nearest integer to num/den (num >= 0, den > 0), ties to the even one
RoundHalfEven(num, den) ==
    LET q == num \div den
        r == num % den
    IN  IF 2 * r > den \/ (2 * r = den /\ q % 2 = 1) THEN q + 1 ELSE q

\* spacing, in quanta, of the floats around num/den >= 0
RECURSIVE Spacing(_, _, _)
Spacing(num, den, u) ==
    IF num < Pow(2, PREC) * u * den THEN u ELSE Spacing(num, den, 2 * u)

\* the float nearest to the rational num/den quanta
RoundToFloat(num, den) ==
    LET u == Spacing(Abs(num), den, 1)
        m == RoundHalfEven(Abs(num), den * u) * u
    IN  IF num < 0 THEN -m ELSE m

IsFloat(k) == RoundToFloat(k, 1) = k

FAdd(a, b) == RoundToFloat(a + b, 1)
FSub(a, b) == RoundToFloat(a - b, 1)
FMul(a, b) == RoundToFloat(a * b, ONE)
\* b # 0; Python raises ZeroDivisionError before dividing by 0.0
FDiv(a, b) == IF b < 0 THEN RoundToFloat(-(a * ONE), -b) ELSE RoundToFloat(a * ONE, b)
\* int -> float, as float / int does
FromInt(n) == RoundToFloat(n * ONE, 1)

\* ---- simulate_amdahl ----------------------------------------------------
Pending == [kind |-> "pending", multi_core_time |-> 0, speedup |-> 0]
Raise(exc) == [kind |-> exc, multi_core_time |-> 0, speedup |-> 0]
Return(m, s) == [kind |-> "ok", multi_core_time |-> m, speedup |-> s]

\* the checks with the core count tested before the fraction
ValidateCoresFirst(total_workload_time, parallelizable_fraction, num_cores) ==
    IF num_cores < 1
    THEN "InvalidCoreCount"
    ELSE IF ~(0 <= parallelizable_fraction /\ parallelizable_fraction <= ONE)
    THEN "InvalidFraction"
    ELSE IF total_workload_time <= 0
    THEN "InvalidWorkloadTime"
    ELSE "none"

\* the three checks, in their order; "none" when all pass
Validate(total_workload_time, parallelizable_fraction, num_cores) ==
    IF ~(0 <= parallelizable_fraction /\ parallelizable_fraction <= ONE)
    THEN "InvalidFraction"
    ELSE IF num_cores < 1
    THEN "InvalidCoreCount"
    ELSE IF total_workload_time <= 0
    THEN "InvalidWorkloadTime"
    ELSE "none"

\* the formula alone, without the num_cores == 1 branch
MultiCoreTimeFormulaOnly(total_workload_time, parallelizable_fraction, num_cores) ==
    LET serial_fraction == FSub(ONE, parallelizable_fraction)
        serial_time == FMul(total_workload_time, serial_fraction)
        parallelizable_time == FMul(total_workload_time, parallelizable_fraction)
    IN  FAdd(serial_time, FDiv(parallelizable_time, FromInt(num_cores)))

MultiCoreTime(total_workload_time, parallelizable_fraction, num_cores) ==
    LET serial_fraction == FSub(ONE, parallelizable_fraction)
        serial_time == FMul(total_workload_time, serial_fraction)
        parallelizable_time == FMul(total_workload_time, parallelizable_fraction)
    IN  IF num_cores = 1
        THEN total_workload_time
        ELSE FAdd(serial_time, FDiv(parallelizable_time, FromInt(num_cores)))

simulate_amdahl(total_workload_time, parallelizable_fraction, num_cores) ==
    LET invalid == Validate(total_workload_time, parallelizable_fraction, num_cores)
        multi_core_time ==
            MultiCoreTime(total_workload_time, parallelizable_fraction, num_cores)
    IN  IF invalid # "none" THEN Raise(invalid)
        ELSE IF multi_core_time = 0 THEN Raise("ZeroDivisionError")
        ELSE Return(multi_core_time, FDiv(total_workload_time, multi_core_time))

\* ---- inputs -------------------------------------------------------------
\* workload times: non-positive ones, the smallest positive floats, 1.0 and
\* the script's 100.0
TimeValues == (-1 .. MaxTinyTime) \cup {ONE, DefaultTotalTime * ONE}

\* every float of [0, 1], one below and one above
FractionValues ==
    {k \in -1 .. ONE : IsFloat(k)} \cup {ONE + Spacing(ONE, 1, 1)}

CoreValues == 0 .. MaxCores

Args(t, p, n) ==
    [total_workload_time |-> t, parallelizable_fraction |-> p, num_cores |-> n]

NoArgs == Args(0, 0, 0)

Apply(a) ==
    simulate_amdahl(a.total_workload_time, a.parallelizable_fraction, a.num_cores)

SweepIdle ==
    /\ total_time = 0
    /\ parallel_fractions = <<>>
    /\ core_counts = <<>>
    /\ p_idx = 0
    /\ n_idx = 0
    /\ speedups = <<>>
    /\ results = <<>>
    /\ plotted = <<>>
    /\ error = "none"

sweepVars == <<total_time, parallel_fractions, core_counts, p_idx, n_idx,
               speedups, results, plotted, error>>

\* ---- one call, then a second one with more cores or a larger fraction ---
InitCompute ==
    /\ \E t \in TimeValues, p \in FractionValues, n \in CoreValues :
           call = Args(t, p, n)
    /\ ret = Pending
    /\ call2 = NoArgs
    /\ ret2 = Pending
    /\ pc = "call"
    /\ SweepIdle

Call ==
    /\ pc = "call"
    /\ ret' = Apply(call)
    /\ pc' = "returned"
    /\ UNCHANGED <<call, call2, ret2, sweepVars>>

CallMoreCores ==
    /\ pc = "returned"
    /\ \E n \in CoreValues :
           /\ n > call.num_cores
           /\ call2' = [call EXCEPT !.num_cores = n]
           /\ ret2' = Apply(call2')
    /\ pc' = "compared"
    /\ UNCHANGED <<call, ret, sweepVars>>

CallLargerFraction ==
    /\ pc = "returned"
    /\ \E p \in FractionValues :
           /\ p > call.parallelizable_fraction
           /\ call2' = [call EXCEPT !.parallelizable_fraction = p]
           /\ ret2' = Apply(call2')
    /\ pc' = "compared"
    /\ UNCHANGED <<call, ret, sweepVars>>

NextCompute == Call \/ CallMoreCores \/ CallLargerFraction

SpecCompute == InitCompute /\ [][NextCompute]_vars

\* ---- the sweep script ---------------------------------------------------
\* the text f'P = {p_frac:.2f}': sign and hundredths, correctly rounded from
\* the float's exact value (ties to even)
FormatLabel(p_frac) ==
    [negative |-> p_frac < 0,
     digits |-> RoundHalfEven(Abs(p_frac) * Pow(10, LabelDecimals), ONE)]

\* float(label.split('=')[1]): the float nearest to the decimal text
ParseLabel(label) ==
    LET m == RoundToFloat(label.digits * ONE, Pow(10, LabelDecimals))
    IN  IF label.negative THEN -m ELSE m

Finite(v) == [kind |-> "finite", value |-> v]
Infinity == [kind |-> "inf", value |-> 0]

\* 1/s if s > 0 else float('inf'), for the p read back from the label
TheoreticalLimit(label) ==
    LET p == ParseLabel(label)
        s == FSub(ONE, p)
    IN  IF s > 0 THEN Finite(FDiv(ONE, s)) ELSE Infinity

HasKey(d, k) == \E i \in 1 .. Len(d) : d[i].label = k

\* d[k] = v on a dict: a key already present keeps its place
DictSet(d, k, v) ==
    IF HasKey(d, k)
    THEN [i \in 1 .. Len(d) |->
             IF d[i].label = k THEN [label |-> k, speedups |-> v] ELSE d[i]]
    ELSE Append(d, [label |-> k, speedups |-> v])

DictGet(d, k) == d[CHOOSE i \in 1 .. Len(d) : d[i].label = k].speedups

SeqsUpTo(S, n) == UNION {[1 .. m -> S] : m \in 0 .. n}

SweepTimeValues == {0, 1, DefaultTotalTime * ONE}

\* two neighbouring small fractions, 0.5, 1.0 and one above 1.0
SweepFractionValues ==
    ((MaxTinyFrac - 1) .. MaxTinyFrac)
        \cup {ONE \div 2, ONE, ONE + Spacing(ONE, 1, 1)}

SweepCoreValues == 0 .. MaxSweepCores

Init ==
    /\ total_time \in SweepTimeValues
    /\ parallel_fractions \in SeqsUpTo(SweepFractionValues, MaxFractions)
    /\ core_counts \in SeqsUpTo(SweepCoreValues, MaxCoreCounts)
    /\ results = <<>>
    /\ pc = "for_p_frac"
    /\ p_idx = 0
    /\ n_idx = 0
    /\ speedups = <<>>
    /\ plotted = <<>>
    /\ error = "none"
    /\ call = NoArgs
    /\ ret = Pending
    /\ call2 = NoArgs
    /\ ret2 = Pending

inputVars == <<total_time, parallel_fractions, core_counts>>
callVars == <<call, ret, call2, ret2>>

\* for p_frac in parallel_fractions: speedups = []
NextFraction ==
    /\ pc = "for_p_frac"
    /\ p_idx < Len(parallel_fractions)
    /\ p_idx' = p_idx + 1
    /\ speedups' = <<>>
    /\ n_idx' = 0
    /\ pc' = "for_n_cores"
    /\ UNCHANGED <<inputVars, callVars, results, plotted, error>>

\* the inner loop body wrapped in try/except: a failing pair is skipped
EvalPairSkipping ==
    /\ pc = "for_n_cores"
    /\ n_idx < Len(core_counts)
    /\ LET r == simulate_amdahl(total_time, parallel_fractions[p_idx],
                                core_counts[n_idx + 1])
       IN  speedups' = IF r.kind = "ok" THEN Append(speedups, r.speedup) ELSE speedups
    /\ n_idx' = n_idx + 1
    /\ UNCHANGED <<inputVars, callVars, pc, p_idx, results, plotted, error>>

\* _, speedup = simulate_amdahl(total_time, p_frac, n_cores); speedups.append(speedup)
\* an exception leaves the loops and ends the script
EvalPair ==
    /\ pc = "for_n_cores"
    /\ n_idx < Len(core_counts)
    /\ LET r == simulate_amdahl(total_time, parallel_fractions[p_idx],
                                core_counts[n_idx + 1])
       IN  \/ /\ r.kind = "ok"
              /\ speedups' = Append(speedups, r.speedup)
              /\ n_idx' = n_idx + 1
              /\ UNCHANGED <<pc, error>>
           \/ /\ r.kind # "ok"
              /\ error' = r.kind
              /\ pc' = "aborted"
              /\ UNCHANGED <<speedups, n_idx>>
    /\ UNCHANGED <<inputVars, callVars, p_idx, results, plotted>>

\* results[f'P = {p_frac:.2f}'] = speedups
StoreCurve ==
    /\ pc = "for_n_cores"
    /\ n_idx = Len(core_counts)
    /\ results' = DictSet(results, FormatLabel(parallel_fractions[p_idx]), speedups)
    /\ pc' = "for_p_frac"
    /\ UNCHANGED <<inputVars, callVars, p_idx, n_idx, speedups, plotted, error>>

\* plt.figure(...): the table is complete and goes to the plotting loop
BeginPlot ==
    /\ pc = "for_p_frac"
    /\ p_idx = Len(parallel_fractions)
    /\ pc' = "for_label"
    /\ UNCHANGED <<inputVars, callVars, p_idx, n_idx, speedups, results, plotted, error>>

\* for label, speedup_list in results.items(): ... plt.plot(...)
PlotCurve ==
    /\ pc = "for_label"
    /\ Len(plotted) < Len(results)
    /\ LET item == results[Len(plotted) + 1]
       IN  plotted' = Append(plotted,
               [label |-> item.label,
                speedup_list |-> item.speedups,
                theoretical_limit |-> TheoreticalLimit(item.label)])
    /\ UNCHANGED <<inputVars, callVars, pc, p_idx, n_idx, speedups, results, error>>

\* plt.title(...) ... plt.show()
Show ==
    /\ pc = "for_label"
    /\ Len(plotted) = Len(results)
    /\ pc' = "done"
    /\ UNCHANGED <<inputVars, callVars, p_idx, n_idx, speedups, results, plotted, error>>

Next == NextFraction \/ EvalPair \/ StoreCurve \/ BeginPlot \/ PlotCurve \/ Show

Spec == Init /\ [][Next]_vars

\* ---- properties of simulate_amdahl (under SpecCompute) ------------------
ValidInput(a) ==
    /\ a.total_workload_time > 0
    /\ 0 <= a.parallelizable_fraction
    /\ a.parallelizable_fraction <= ONE
    /\ a.num_cores >= 1

\* C1: simulate_amdahl fails if and only if an input constraint is violated;
\* every valid input gets a (multi_core_time, speedup) pair.
C1_ErrorIffInvalid ==
    pc # "call" => ((ret.kind # "ok") <=> ~ValidInput(call))

\* C2: a returned speedup is at least 1 and, when p < 1, at most 1/(1-p):
\* speedup * (1-p) <= 1.
C2_SpeedupBounds ==
    (pc # "call" /\ ret.kind = "ok") =>
        /\ ret.speedup >= ONE
        /\ call.parallelizable_fraction < ONE =>
               ret.speedup * (ONE - call.parallelizable_fraction) <= ONE * ONE

\* the lower half of C2 alone
SpeedupAtLeastOne ==
    (pc # "call" /\ ret.kind = "ok") => ret.speedup >= ONE

\* C3: with one core and valid p and total time the call returns the total
\* time itself and a speedup of exactly 1.
C3_SingleCoreExact ==
    (pc # "call" /\ ValidInput(call) /\ call.num_cores = 1) =>
        ret = Return(call.total_workload_time, ONE)

\* a one-core call for which serial_time + parallelizable_time / 1 would have
\* given another time than the total
C3_Witness ==
    /\ pc # "call"
    /\ ValidInput(call)
    /\ call.num_cores = 1
    /\ ret.kind = "ok"
    /\ MultiCoreTimeFormulaOnly(call.total_workload_time,
                                call.parallelizable_fraction, 1)
           # call.total_workload_time

\* C4: for fixed valid total time and fraction, more cores never give a smaller
\* speedup: both calls return and speedup(n1) <= speedup(n2) for 1 <= n1 < n2.
C4_MonotoneInCores ==
    (pc = "compared" /\ ValidInput(call) /\ call.num_cores < call2.num_cores) =>
        /\ ret.kind = "ok"
        /\ ret2.kind = "ok"
        /\ ret.speedup <= ret2.speedup

\* C4 restricted to the calls that return
MonotoneInCoresWhenReturned ==
    (pc = "compared" /\ call.num_cores < call2.num_cores
        /\ ret.kind = "ok" /\ ret2.kind = "ok") =>
        ret.speedup <= ret2.speedup

\* C5: for fixed valid total time and core count, a larger fraction never
\* gives a smaller speedup: speedup(p1) <= speedup(p2) for 0 <= p1 < p2 <= 1.
C5_MonotoneInFraction ==
    (pc = "compared"
        /\ call.parallelizable_fraction < call2.parallelizable_fraction
        /\ ret.kind = "ok" /\ ret2.kind = "ok") =>
        ret.speedup <= ret2.speedup

\* C10: the error is that of the first violated constraint in the order
\* fraction, core count, workload time.
C10_FirstViolatedConstraint ==
    pc # "call" =>
        LET pOK == 0 <= call.parallelizable_fraction
                       /\ call.parallelizable_fraction <= ONE
            nOK == call.num_cores >= 1
            tOK == call.total_workload_time > 0
        IN  /\ ~pOK => ret.kind = "InvalidFraction"
            /\ (pOK /\ ~nOK) => ret.kind = "InvalidCoreCount"
            /\ (ret.kind = "InvalidWorkloadTime") <=> (pOK /\ nOK /\ ~tOK)

\* a call that violates all three constraints at once
C10_Witness ==
    /\ pc # "call"
    /\ call.parallelizable_fraction > ONE
    /\ call.num_cores < 1
    /\ call.total_workload_time <= 0
    /\ ret.kind = "InvalidFraction"

\* ---- properties of the sweep (under Spec) -------------------------------
Pairs == (1 .. Len(parallel_fractions)) \X (1 .. Len(core_counts))

PairResult(i, j) ==
    simulate_amdahl(total_time, parallel_fractions[i], core_counts[j])

CurveOf(i) == [j \in 1 .. Len(core_counts) |-> PairResult(i, j).speedup]

\* the sweep's parameters satisfy the constraints of simulate_amdahl
SweepInputsValid ==
    /\ total_time > 0
    /\ \A i \in 1 .. Len(parallel_fractions) :
           0 <= parallel_fractions[i] /\ parallel_fractions[i] <= ONE
    /\ \A j \in 1 .. Len(core_counts) : core_counts[j] >= 1

\* C6: after a completed sweep the curve stored for each fraction has one
\* value per core count, in order, the i-th being the speedup of
\* simulate_amdahl for that fraction and the i-th core count.
C6_CurveOfEachFraction ==
    (pc = "done" /\ SweepInputsValid) =>
        \A i \in 1 .. Len(parallel_fractions) :
            DictGet(results, FormatLabel(parallel_fractions[i])) = CurveOf(i)

\* C7: the limit carried with the curve of a fraction p is 1/(1-p) when
\* p < 1 and infinite only when p = 1.
C7_LimitOfEachFraction ==
    (pc = "done" /\ SweepInputsValid) =>
        \A i \in 1 .. Len(parallel_fractions) :
            LET p == parallel_fractions[i]
                k == CHOOSE k \in 1 .. Len(plotted) :
                         plotted[k].label = FormatLabel(p)
            IN  plotted[k].theoretical_limit =
                    IF p < ONE THEN Finite(FDiv(ONE, FSub(ONE, p)))
                    ELSE Infinity

\* the table the first k fractions give when every pair succeeds
RECURSIVE TableOf(_)
TableOf(k) ==
    IF k = 0 THEN <<>>
    ELSE DictSet(TableOf(k - 1), FormatLabel(parallel_fractions[k]), CurveOf(k))

C8_State ==
    \* no pair was passed over: every pair behind the current position succeeded
    /\ \A ij \in Pairs :
           (ij[1] < p_idx \/ (ij[1] = p_idx /\ ij[2] <= n_idx)) =>
               PairResult(ij[1], ij[2]).kind = "ok"
    /\ pc = "aborted" =>
           /\ p_idx \in 1 .. Len(parallel_fractions)
           /\ n_idx < Len(core_counts)
           /\ error = PairResult(p_idx, n_idx + 1).kind
           /\ error \notin {"ok", "none"}
           /\ Len(speedups) = n_idx
           /\ results = TableOf(p_idx - 1)
           /\ plotted = <<>>
    /\ (pc \in {"for_label", "done"} \/ plotted # <<>>) =>
           /\ error = "none"
           /\ \A ij \in Pairs : PairResult(ij[1], ij[2]).kind = "ok"

\* C8: a failing pair stops the sweep there with that error: nothing behind
\* it was skipped, nothing after it runs, the table holds only the earlier
\* fractions' entries and never reaches the plotting loop.
C8_AbortOnFailure ==
    /\ []C8_State
    /\ [][pc = "aborted" => UNCHANGED vars]_vars

\* a sweep stopped at a pair that has an earlier fraction stored before it
\* and a further core count after it
C8_Witness ==
    /\ pc = "aborted"
    /\ Len(results) >= 1
    /\ n_idx + 1 < Len(core_counts)

\* C9: after a completed sweep over pairwise distinct fractions the table has
\* one entry per fraction, in the order of the fractions.
C9_OneCurvePerFraction ==
    (pc = "done" /\ SweepInputsValid
        /\ \A i, j \in 1 .. Len(parallel_fractions) :
               i # j => parallel_fractions[i] # parallel_fractions[j]) =>
        /\ Len(results) = Len(parallel_fractions)
        /\ \A i \in 1 .. Len(parallel_fractions) :
               results[i].label = FormatLabel(parallel_fractions[i])

====
